---- MODULE Spec2Model ----
(***************************************************************************)
(* footwist: the motion controller (Application), with the Axis, Twist and *)
(* Screw value types it drives.                                            *)
(*                                                                         *)
(* Numbers.  A JavaScript number is modelled in fixed point: the integer n *)
(* stands for n / Scale, products and quotients are rounded to the nearest *)
(* unit, and +Infinity is a value above every finite one.  mathjs          *)
(* equal(a, b), equality up to a relative epsilon of 1e-12, is equality.   *)
(*                                                                         *)
(* Transforms.  sin and cos are not evaluated: a rotation matrix is kept   *)
(* as the axis and angle Rodrigues' formula is applied to, and a           *)
(* translation as the pair (offset, along) standing for                    *)
(* (I - R) * offset + along, which is how Twist.getTransform builds it.    *)
(***************************************************************************)
EXTENDS Integers, Sequences, FiniteSets, TLC

(***************************************************************************)
(* Bounds of the model.                                                    *)
(***************************************************************************)
\* animate(time) is called with time in 0..MaxTick
MaxTick == 2
\* number of visualization meshes that may be allocated in one run
MaxObjects == 3
\* timed runs: animate is called FramesPerSecond times a second, and a move
\* is triggered at frame MaxStartFrame at the latest
FramesPerSecond == 2
MaxStartFrame == 2
\* calls of the value types: coordinates are the integers of -MaxCoord..MaxCoord
MaxCoord == 1

(***************************************************************************)
(* Constants of the program.                                               *)
(***************************************************************************)
\* getScrewSpeed: the window the time of a move is clamped to
minTime == 1
maxTime == 6
\* the reference frame is the first object of the scene
RefAxesId == 0

(***************************************************************************)
(* Fixed-point arithmetic (JavaScript numbers).                            *)
(***************************************************************************)
\* the integer that stands for 1
Scale == 10 * 10 * 10

Num(n) == n * Scale
Zero == Num(0)
One == Scale
Infinity == 1000 * Scale
\* an optional argument left out, or a field holding undefined
Undefined == 0 - Infinity
\* Math.PI
PI == (355 * Scale) \div 113

Abs(x) == IF x < 0 THEN -x ELSE x

\* a * b and a / b (b > 0), rounded to the nearest unit
Mul(a, b) == (a * b + Scale \div 2) \div Scale
Div(a, b) == (a * Scale + b \div 2) \div b

Min(a, b) == IF b < a THEN b ELSE a
Max(a, b) == IF a < b THEN b ELSE a

\* mathjs equal on numbers
equal(a, b) == a = b

RECURSIVE SqrtSearch(_, _, _)
\* the largest r in lo..hi with r * r <= x
SqrtSearch(lo, hi, x) ==
  IF lo >= hi THEN lo
  ELSE LET mid == (lo + hi + 1) \div 2
       IN  IF mid * mid <= x THEN SqrtSearch(mid, hi, x)
           ELSE SqrtSearch(lo, mid - 1, x)

\* floor of the square root of an integer below 46340 * 46340
ISqrt(x) == SqrtSearch(0, IF x < 46340 THEN x ELSE 46340, x)

(***************************************************************************)
(* Vectors of three numbers (mathjs dot, cross, norm, multiply, subtract). *)
(***************************************************************************)
Vec(x, y, z) == <<Num(x), Num(y), Num(z)>>
Zero3 == <<0, 0, 0>>

dot(u, v) == Mul(u[1], v[1]) + Mul(u[2], v[2]) + Mul(u[3], v[3])

cross(u, v) ==
  << Mul(u[2], v[3]) - Mul(u[3], v[2]),
     Mul(u[3], v[1]) - Mul(u[1], v[3]),
     Mul(u[1], v[2]) - Mul(u[2], v[1]) >>

norm(v) == ISqrt(v[1] * v[1] + v[2] * v[2] + v[3] * v[3])

\* norm of the 2-vector [a, b]
norm2(a, b) == ISqrt(a * a + b * b)

multiply(v, k) == <<Mul(v[1], k), Mul(v[2], k), Mul(v[3], k)>>

add(u, v) == <<u[1] + v[1], u[2] + v[2], u[3] + v[3]>>

subtract(u, v) == <<u[1] - v[1], u[2] - v[2], u[3] - v[3]>>

normalizeVector(vector) ==
  LET vectorNorm == norm(vector)
  IN  IF equal(vectorNorm, Zero) THEN vector
      ELSE <<Div(vector[1], vectorNorm), Div(vector[2], vectorNorm),
             Div(vector[3], vectorNorm)>>

(***************************************************************************)
(* Axis: a line, a point and a unit direction.                             *)
(***************************************************************************)
\* variant: the norm of the direction is not checked
AxisNeverThrows(point, direction) == FALSE

\* the constructor throws on a direction of zero norm
AxisThrows(point, direction) == equal(norm(direction), Zero)

NewAxis(point, direction) ==
  [point |-> point, direction |-> normalizeVector(direction)]

distanceToPoint(axis, point) ==
  LET vec == subtract(point, axis.point)
      projection == multiply(axis.direction, dot(vec, axis.direction))
      normal == subtract(vec, projection)
  IN  norm(normal)

containsPoint(axis, point) == equal(distanceToPoint(axis, point), Zero)

\* variant: the points themselves are compared
equalToSamePoint(axis, other) ==
  LET directionEqual ==
        /\ equal(axis.direction[1], other.direction[1])
        /\ equal(axis.direction[2], other.direction[2])
        /\ equal(axis.direction[3], other.direction[3])
  IN  IF ~directionEqual THEN FALSE
      ELSE axis.point = other.point

equalTo(axis, other) ==
  LET directionEqual ==
        /\ equal(axis.direction[1], other.direction[1])
        /\ equal(axis.direction[2], other.direction[2])
        /\ equal(axis.direction[3], other.direction[3])
  IN  IF ~directionEqual THEN FALSE
      ELSE containsPoint(axis, other.point)

getClosestPointToOrigin(axis) ==
  LET lambda == -dot(axis.point, axis.direction)
  IN  add(axis.point, multiply(axis.direction, lambda))

passesThroughOrigin(axis) == equal(distanceToPoint(axis, Zero3), Zero)

(***************************************************************************)
(* Twist: linear and angular 3-vectors.                                    *)
(***************************************************************************)
NewTwist(linear, angular) == [linear |-> linear, angular |-> angular]

TwistIsPureTranslation(twist) == equal(norm(twist.angular), Zero)

TwistIsPureRotation(twist) == equal(norm(twist.linear), Zero)

TwistNorm(twist) ==
  IF TwistIsPureTranslation(twist) THEN norm(twist.linear)
  ELSE norm(twist.angular)

TwistMultiply(twist, multiple) ==
  NewTwist(multiply(twist.linear, multiple), multiply(twist.angular, multiple))

TwistUnit(twist) == TwistMultiply(twist, Div(One, TwistNorm(twist)))

\* identity(3), as the rotation by angle 0
IdentityRotation == [axis |-> Zero3, angle |-> Zero]

\* identity(4)
IdentityTransform == [rot |-> IdentityRotation, offset |-> Zero3, along |-> Zero3]

\* rotationMatrixFromAxisAngle throws on an axis of zero norm
rotationMatrixFromAxisAngleThrows(axis, angle) == equal(norm(axis), Zero)

\* Rodrigues' formula, kept as the normalized axis and the angle it is
\* applied to
rotationMatrixFromAxisAngle(axis, angle) ==
  IF equal(angle, Zero) THEN IdentityRotation
  ELSE [axis |-> normalizeVector(axis), angle |-> angle]

\* Twist.getTransform throws when rotationMatrixFromAxisAngle does
TwistGetTransformThrows(twist) ==
  /\ ~TwistIsPureTranslation(twist)
  /\ rotationMatrixFromAxisAngleThrows(TwistUnit(twist).angular, TwistNorm(twist))

\* the transform is (R, (I - R) * offset + along)
TwistGetTransform(twist) ==
  IF TwistIsPureTranslation(twist)
  THEN [rot |-> IdentityRotation, offset |-> Zero3, along |-> twist.linear]
  ELSE
    LET theta == TwistNorm(twist)
        unitTwist == TwistUnit(twist)
        R == rotationMatrixFromAxisAngle(unitTwist.angular, theta)
        w == unitTwist.angular
        v == unitTwist.linear
    IN  IF TwistIsPureRotation(twist)
        THEN [rot |-> R, offset |-> Zero3, along |-> Zero3]
        ELSE [rot |-> R,
              offset |-> cross(w, v),
              \* (hat(w)^2 + I) v theta
              along |-> multiply(add(cross(w, cross(w, v)), v), theta)]

(***************************************************************************)
(* Screw: axis, pitch, magnitude.                                          *)
(***************************************************************************)
\* the constructor throws on a negative magnitude
ScrewThrows(axis, pitch, magnitude) == magnitude < 0

NewScrew(axis, pitch, magnitude) ==
  [axis |-> axis, pitch |-> pitch, magnitude |-> magnitude]

\* the unit twist the constructor derives and stores
unitTwist(this) ==
  IF this.pitch = Infinity
  THEN NewTwist(this.axis.direction, Zero3)
  ELSE NewTwist(
         subtract(multiply(this.axis.direction, this.pitch),
                  cross(this.axis.direction, this.axis.point)),
         this.axis.direction)

isPureRotation(this) == equal(this.pitch, Zero)

isPureTranslation(this) == this.pitch = Infinity

\* [ok |-> FALSE] stands for the thrown Error
getTwistAtMagnitude(this, magnitude) ==
  IF magnitude < 0
  THEN [ok |-> FALSE, value |-> NewTwist(Zero3, Zero3)]
  ELSE [ok |-> TRUE, value |-> TwistMultiply(unitTwist(this), magnitude)]

\* variant: the magnitude of the screw itself is out of range
getTransformAtMagnitudeBelow(this, magnitude) ==
  IF magnitude < 0 THEN [ok |-> FALSE, value |-> IdentityTransform]
  ELSE IF magnitude >= this.magnitude
  THEN [ok |-> FALSE, value |-> IdentityTransform]
  ELSE [ok |-> ~TwistGetTransformThrows(getTwistAtMagnitude(this, magnitude).value),
        value |-> TwistGetTransform(getTwistAtMagnitude(this, magnitude).value)]

getTransformAtMagnitude(this, magnitude) ==
  IF magnitude < 0 THEN [ok |-> FALSE, value |-> IdentityTransform]
  ELSE IF magnitude > this.magnitude
  THEN [ok |-> FALSE, value |-> IdentityTransform]
  ELSE [ok |-> ~TwistGetTransformThrows(getTwistAtMagnitude(this, magnitude).value),
        value |-> TwistGetTransform(getTwistAtMagnitude(this, magnitude).value)]

valuesEqualTo(this, other) ==
  /\ equalTo(this.axis, other.axis)
  /\ equal(this.magnitude, other.magnitude)
  /\ equal(this.pitch, other.pitch)

getTransform(this) == getTransformAtMagnitude(this, this.magnitude)

\* getDistanceTravelled throws on a negative magnitude
getDistanceTravelledThrows(this, point, inputMagnitude) ==
  (IF inputMagnitude = Undefined THEN this.magnitude ELSE inputMagnitude) < 0

getDistanceTravelled(this, point, inputMagnitude) ==
  LET magnitude == IF inputMagnitude = Undefined THEN this.magnitude
                   ELSE inputMagnitude
  IN  IF isPureTranslation(this) THEN magnitude
      ELSE LET radius == distanceToPoint(this.axis, point)
           IN  Mul(norm2(radius, this.pitch), this.magnitude)

(***************************************************************************)
(* util: speed policy and pose of a three.js object.                       *)
(***************************************************************************)
deg2rad(angle) == Mul(angle, Div(PI, Num(180)))

\* variant: the time of a move is not cut to maxTime
getScrewSpeedNoMaxTime(inputScrew) ==
  LET distance == IF isPureRotation(inputScrew) THEN inputScrew.magnitude
                  ELSE getDistanceTravelled(inputScrew, Zero3, inputScrew.magnitude)
      speed == IF isPureRotation(inputScrew) THEN deg2rad(Num(30)) ELSE One
      time == Max(Num(minTime), Div(distance, speed))
  IN  Div(inputScrew.magnitude, time)

getScrewSpeed(inputScrew) ==
  LET distance == IF isPureRotation(inputScrew) THEN inputScrew.magnitude
                  ELSE getDistanceTravelled(inputScrew, Zero3, inputScrew.magnitude)
      speed == IF isPureRotation(inputScrew) THEN deg2rad(Num(30)) ELSE One
      time == Min(Max(Num(minTime), Div(distance, speed)), Num(maxTime))
  IN  Div(inputScrew.magnitude, time)

\* position and quaternion of the object, read off the transform
setThreeObjectPoseFromTransform(transform) ==
  [position |-> [offset |-> transform.offset, along |-> transform.along],
   quaternion |-> transform.rot]

\* variant: a magnitude left out stands for the start of the motion
setThreeObjectPoseFromScrewAtStart(inputScrew, inputMagnitude) ==
  LET magnitude == IF inputMagnitude = Undefined THEN Zero
                   ELSE inputMagnitude
      transform == getTransformAtMagnitude(inputScrew, magnitude)
  IN  [ok |-> transform.ok, pose |-> setThreeObjectPoseFromTransform(transform.value)]

\* [ok |-> FALSE]: getTransformAtMagnitude threw and the object is untouched
setThreeObjectPoseFromScrew(inputScrew, inputMagnitude) ==
  LET magnitude == IF inputMagnitude = Undefined THEN inputScrew.magnitude
                   ELSE inputMagnitude
      transform == getTransformAtMagnitude(inputScrew, magnitude)
  IN  [ok |-> transform.ok, pose |-> setThreeObjectPoseFromTransform(transform.value)]

(***************************************************************************)
(* The screws of the model.                                                *)
(***************************************************************************)
ZAxis == NewAxis(Vec(0, 0, 0), Vec(0, 0, 1))

\* index.js: Screw.fromTransform(identity), the zero twist's conventional screw
defaultScrew == NewScrew(ZAxis, Infinity, Zero)

translationScrew == NewScrew(ZAxis, Infinity, One)

rotationScrew == NewScrew(ZAxis, Zero, One)

coilScrew ==
  NewScrew(NewAxis(<<One \div 2, One \div 2, Zero>>, Vec(0, 0, 1)), One \div 2, One)

\* the z axis again, given by another of its points
shiftedTranslationScrew == NewScrew(NewAxis(Vec(0, 0, 1), Vec(0, 0, 1)), Infinity, One)

Screws ==
  { defaultScrew, translationScrew, rotationScrew, coilScrew,
    shiftedTranslationScrew }

\* a translation so short that its time is raised to minTime, and one so long
\* that its time is cut to maxTime
shortTranslationScrew == NewScrew(ZAxis, Infinity, One \div 2)

longTranslationScrew == NewScrew(ZAxis, Infinity, Num(12))

TimedScrews ==
  { defaultScrew, shortTranslationScrew, translationScrew, rotationScrew,
    coilScrew, longTranslationScrew }

AllScrews == Screws \cup TimedScrews

\* The per-screw results the controller asks for again and again, tabulated
\* over the screws of the model.
screwSpeedOf == [s \in AllScrews |-> getScrewSpeed(s)]

\* setThreeObjectPoseFromScrew(object, screw), magnitude left out
endPoseOf == [s \in AllScrews |-> setThreeObjectPoseFromScrew(s, Undefined).pose]

valuesEqual == [p \in AllScrews \X AllScrews |-> valuesEqualTo(p[1], p[2])]

(***************************************************************************)
(* State.                                                                  *)
(***************************************************************************)
VARIABLES
  \* Application
  screw,            \* the input screw
  prevScrew,        \* the screw of the last move picked up by animate
  moveRequested,
  moveDone,
  moveStartTime,    \* a time, or Undefined
  axisViz,          \* id of a mesh, or NoViz for undefined
  helixViz,
  screwSpeed,
  refAxes,          \* position and quaternion of the displayed frame
  usingScene,       \* whether a scene was passed to the constructor
  resetCameraView,  \* whether the callback was passed to the constructor
  \* three.js
  scene,            \* scene.children, as the ids of the objects
  meshes,           \* the visualization meshes still referenced
  allocated,        \* number of visualization meshes created so far
  disposed,         \* ids of the meshes whose geometry and material were disposed
  \* GuiHelper
  addedToGui,
  controllersEnabled,
  \* the caller
  clock,            \* tick of the latest animate call
  lastOp,           \* the latest call: its name, the flags it found, whether it threw
  signals,          \* the collaborators the latest call invoked
  \* Axis, Twist, Screw
  call              \* the latest call of a value type: arguments and outcome

appVars ==
  << screw, prevScrew, moveRequested, moveDone, moveStartTime, axisViz,
     helixViz, screwSpeed, refAxes >>

\* what no method of Application or GuiHelper assigns: the arguments of the
\* constructor, and the record of the calls made on the value types directly
configVars == << usingScene, resetCameraView, addedToGui, call >>

sceneVars == << scene, meshes, allocated, disposed >>

vars ==
  << screw, prevScrew, moveRequested, moveDone, moveStartTime, axisViz,
     helixViz, screwSpeed, refAxes, usingScene, resetCameraView, scene,
     meshes, allocated, disposed, addedToGui, controllersEnabled, clock, lastOp,
     signals, call >>

\* a viz field holding undefined
NoViz == RefAxesId - 1

TimeOf(tick) == Num(tick)

Op(name, threw) ==
  [op |-> name, requested |-> moveRequested, done |-> moveDone, threw |-> threw]

\* no call of a value type made yet
NoCall == [op |-> "none", args |-> <<>>, threw |-> FALSE, result |-> <<>>]

\* index.js passes scene, resetCameraView and gui; a test passes none
Configurations ==
  { [scene |-> TRUE, camera |-> TRUE, gui |-> TRUE],
    [scene |-> FALSE, camera |-> FALSE, gui |-> FALSE] }

\* Application.constructor
Init ==
  \E c \in Configurations :
    /\ usingScene = c.scene
    /\ resetCameraView = c.camera
    /\ addedToGui = c.gui
    /\ scene = IF c.scene THEN {RefAxesId} ELSE {}
    /\ meshes = {}
    /\ allocated = 0
    /\ disposed = {}
    /\ refAxes = setThreeObjectPoseFromTransform(IdentityTransform)
    /\ screw = defaultScrew
    /\ prevScrew = defaultScrew
    /\ moveRequested = FALSE
    /\ moveDone = TRUE
    /\ moveStartTime = Undefined
    /\ axisViz = NoViz
    /\ helixViz = NoViz
    /\ screwSpeed = getScrewSpeed(defaultScrew)
    /\ controllersEnabled = TRUE
    /\ clock = 0
    /\ lastOp = [op |-> "constructor", requested |-> FALSE, done |-> TRUE,
                 threw |-> FALSE]
    /\ signals = {}
    /\ call = NoCall

(***************************************************************************)
(* Application.                                                            *)
(***************************************************************************)
\* variant: the frame is left where it is until the next animate
UpdateScrewDeferred(s) ==
  /\ screw' = s
  /\ screwSpeed' = screwSpeedOf[s]
  /\ lastOp' = Op("updateScrew", FALSE)
  /\ signals' = {}
  /\ UNCHANGED << prevScrew, moveRequested, moveDone, moveStartTime, axisViz,
                  helixViz, refAxes, configVars, sceneVars, controllersEnabled,
                  clock >>

\* variant: the new screw is stored as prevScrew too
UpdateScrewStoringPrev(s) ==
  /\ screw' = s
  /\ prevScrew' = s
  /\ screwSpeed' = screwSpeedOf[s]
  /\ refAxes' = endPoseOf[s]
  /\ lastOp' = Op("updateScrew", FALSE)
  /\ signals' = {}
  /\ UNCHANGED << moveRequested, moveDone, moveStartTime, axisViz,
                  helixViz, configVars, sceneVars, controllersEnabled, clock >>

\* Application.updateScrew
UpdateScrew(s) ==
  /\ screw' = s
  /\ screwSpeed' = screwSpeedOf[s]
  /\ refAxes' = endPoseOf[s]
  /\ lastOp' = Op("updateScrew", FALSE)
  /\ signals' = {}
  /\ UNCHANGED << prevScrew, moveRequested, moveDone, moveStartTime, axisViz,
                  helixViz, configVars, sceneVars, controllersEnabled, clock >>

\* variant: the request is a toggle
ApplicationMoveToggle == moveRequested' = ~moveRequested

\* Application.move
ApplicationMove == moveRequested' = TRUE

\* variant: a request also forgets the start of the previous move
MoveForgettingStart ==
  /\ ApplicationMove
  /\ moveStartTime' = Undefined
  /\ lastOp' = Op("move", FALSE)
  /\ signals' = {}
  /\ UNCHANGED << screw, prevScrew, moveDone, axisViz, helixViz,
                  screwSpeed, refAxes, configVars, sceneVars,
                  controllersEnabled, clock >>

Move ==
  /\ ApplicationMove
  /\ lastOp' = Op("move", FALSE)
  /\ signals' = {}
  /\ UNCHANGED << screw, prevScrew, moveDone, moveStartTime, axisViz, helixViz,
                  screwSpeed, refAxes, configVars, sceneVars,
                  controllersEnabled, clock >>

\* variant: the helix viz is left behind
RemovedAxisVizOnly ==
  { v \in {axisViz} : v # NoViz /\ usingScene /\ v \in scene }

\* the viz meshes that removeVizFromScene takes out of the scene and disposes
RemovedViz ==
  { v \in {axisViz, helixViz} : v # NoViz /\ usingScene /\ v \in scene }

\* removeVizFromScene: the call of scene.remove, when there is viz to remove
RemovalSignals == IF RemovedViz # {} THEN {"scene.remove"} ELSE {}

\* a mesh no field and no scene refers to is garbage
Referenced(ms, handles, children) ==
  { m \in ms : m.id \in handles \/ m.id \in children }

\* variant: the fields are cleared and the scene keeps the meshes
forgetViz ==
  /\ axisViz' = NoViz
  /\ helixViz' = NoViz
  /\ UNCHANGED << scene, disposed, meshes >>

\* Application.removeVizFromScene
removeVizFromScene ==
  /\ scene' = scene \ RemovedViz
  /\ disposed' = disposed \cup RemovedViz
  /\ axisViz' = NoViz
  /\ helixViz' = NoViz
  /\ meshes' = Referenced(meshes, {}, scene \ RemovedViz)

\* variant: prevScrew survives the reset
ApplicationResetKeepingPrev ==
  /\ screw' = defaultScrew
  /\ prevScrew' = prevScrew
  /\ moveRequested' = FALSE
  /\ moveDone' = TRUE
  /\ moveStartTime' = Undefined
  /\ refAxes' = endPoseOf[defaultScrew]
  /\ signals' = (IF resetCameraView THEN {"resetCameraView"} ELSE {})
                  \cup RemovalSignals
  /\ removeVizFromScene
  /\ UNCHANGED << screwSpeed, allocated >>

\* variant: the start time of the interrupted move survives the reset
ApplicationResetKeepingStart ==
  /\ screw' = defaultScrew
  /\ prevScrew' = defaultScrew
  /\ moveRequested' = FALSE
  /\ moveDone' = TRUE
  /\ moveStartTime' = moveStartTime
  /\ refAxes' = endPoseOf[defaultScrew]
  /\ signals' = (IF resetCameraView THEN {"resetCameraView"} ELSE {})
                  \cup RemovalSignals
  /\ removeVizFromScene
  /\ UNCHANGED << screwSpeed, allocated >>

\* variant: a pending request survives the reset
ApplicationResetKeepingRequest ==
  /\ screw' = defaultScrew
  /\ prevScrew' = defaultScrew
  /\ moveRequested' = moveRequested
  /\ moveDone' = TRUE
  /\ moveStartTime' = Undefined
  /\ refAxes' = endPoseOf[defaultScrew]
  /\ signals' = (IF resetCameraView THEN {"resetCameraView"} ELSE {})
                  \cup RemovalSignals
  /\ removeVizFromScene
  /\ UNCHANGED << screwSpeed, allocated >>

\* Application.reset
ApplicationReset ==
  /\ screw' = defaultScrew
  /\ prevScrew' = defaultScrew
  /\ moveRequested' = FALSE
  /\ moveDone' = TRUE
  /\ moveStartTime' = Undefined
  /\ refAxes' = endPoseOf[defaultScrew]
  /\ signals' = (IF resetCameraView THEN {"resetCameraView"} ELSE {})
                  \cup RemovalSignals
  /\ removeVizFromScene
  /\ UNCHANGED << screwSpeed, allocated >>

Reset ==
  /\ ApplicationReset
  /\ lastOp' = Op("reset", FALSE)
  /\ UNCHANGED << configVars, controllersEnabled, clock >>

\* GuiHelper.enableAllControllers
enableAllControllers(flag) ==
  controllersEnabled' = IF addedToGui THEN flag ELSE controllersEnabled

\* variant: a move that is re-triggered while under way also counts as new
newScrewOrMoving == ~moveDone \/ ~valuesEqual[<<prevScrew, screw>>]

\* animate, first branch: whether the helper viz is created again
newScrew == ~valuesEqual[<<prevScrew, screw>>]

zeroScrew == equal(screw.magnitude, Zero)

\* variant: the magnitude is not looked at
RegenerateVizAnyMagnitude == newScrew

RegenerateViz == newScrew /\ ~zeroScrew

\* variant: a move of magnitude zero is done in the call that takes the request
ConsumeRequestDoneIfZero(time) ==
  /\ moveRequested' = FALSE
  /\ moveDone' = zeroScrew
  /\ prevScrew' = screw
  /\ moveStartTime' = time

\* variant: a request found while a move is under way keeps its start time
ConsumeRequestKeepingStart(time) ==
  /\ moveRequested' = FALSE
  /\ moveDone' = FALSE
  /\ prevScrew' = screw
  /\ moveStartTime' = IF moveDone THEN time ELSE moveStartTime

\* animate, first branch: the request is taken and the move starts at time
ConsumeRequest(time) ==
  /\ moveRequested' = FALSE
  /\ moveDone' = FALSE
  /\ prevScrew' = screw
  /\ moveStartTime' = time

\* add helix viz only if screw axis is offset from origin
WithHelix == ~passesThroughOrigin(screw.axis)

\* getAxisThreeViz, getHelixThreeViz: a mesh made for the current screw
NewMesh(id, kind) == [id |-> id, kind |-> kind, screw |-> screw]

\* variant: the fields are not cleared before the new viz is made
GenerateVizKeepingHelix ==
  LET axisId == allocated + 1
      helixId == allocated + 2
      added == IF WithHelix THEN {axisId, helixId} ELSE {axisId}
      created == IF WithHelix
                 THEN {NewMesh(axisId, "axis"), NewMesh(helixId, "helix")}
                 ELSE {NewMesh(axisId, "axis")}
  IN  /\ allocated + Cardinality(added) <= MaxObjects
      /\ allocated' = allocated + Cardinality(added)
      /\ axisViz' = axisId
      /\ helixViz' = IF WithHelix THEN helixId ELSE helixViz
      /\ scene' = (scene \ RemovedViz) \cup (IF usingScene THEN added ELSE {})
      /\ disposed' = disposed \cup RemovedViz
      /\ meshes' = Referenced(meshes, {}, scene \ RemovedViz) \cup created
      /\ signals' = RemovalSignals
                      \cup (IF WithHelix
                            THEN {"getAxisThreeViz", "getHelixThreeViz"}
                            ELSE {"getAxisThreeViz"})
                      \cup (IF usingScene THEN {"scene.add"} ELSE {})

\* animate, first branch: the existing viz is removed and new viz is made
GenerateViz ==
  LET axisId == allocated + 1
      helixId == allocated + 2
      added == IF WithHelix THEN {axisId, helixId} ELSE {axisId}
      created == IF WithHelix
                 THEN {NewMesh(axisId, "axis"), NewMesh(helixId, "helix")}
                 ELSE {NewMesh(axisId, "axis")}
  IN  /\ allocated + Cardinality(added) <= MaxObjects
      /\ allocated' = allocated + Cardinality(added)
      /\ axisViz' = axisId
      /\ helixViz' = IF WithHelix THEN helixId ELSE NoViz
      /\ scene' = (scene \ RemovedViz) \cup (IF usingScene THEN added ELSE {})
      /\ disposed' = disposed \cup RemovedViz
      /\ meshes' = Referenced(meshes, {}, scene \ RemovedViz) \cup created
      /\ signals' = RemovalSignals
                      \cup (IF WithHelix
                            THEN {"getAxisThreeViz", "getHelixThreeViz"}
                            ELSE {"getAxisThreeViz"})
                      \cup (IF usingScene THEN {"scene.add"} ELSE {})

\* animate, first branch: a move request is picked up
AnimateRequested(time) ==
  /\ ConsumeRequest(time)
  /\ refAxes' = endPoseOf[defaultScrew]
  /\ IF RegenerateViz THEN GenerateViz
     ELSE /\ signals' = {}
          /\ UNCHANGED << axisViz, helixViz, sceneVars >>
  /\ UNCHANGED << screw, screwSpeed, controllersEnabled >>

\* variant: the elapsed time is taken with the wrong sign
advancedMagnitudeBackwards(time) == Mul(screwSpeed, moveStartTime - time)

\* animate, second branch: the magnitude the move has advanced to
advancedMagnitude(time) == Mul(screwSpeed, time - moveStartTime)

\* variant: reaching the magnitude exactly does not end the move
MoveCompletesStrictly(time) == advancedMagnitude(time) > screw.magnitude

MoveCompletes(time) == advancedMagnitude(time) >= screw.magnitude

\* variant: the inputs are enabled again by every call of the second branch
AnimateMovingEnablingEarly(time) ==
  IF MoveCompletes(time)
  THEN /\ moveDone' = TRUE
       /\ refAxes' = setThreeObjectPoseFromScrew(screw, screw.magnitude).pose
       /\ enableAllControllers(TRUE)
       /\ signals' = {"enableAllControllers"}
       /\ UNCHANGED << screw, prevScrew, moveRequested, moveStartTime, axisViz,
                       helixViz, screwSpeed, sceneVars >>
  ELSE /\ refAxes' =
            LET set == setThreeObjectPoseFromScrew(screw, advancedMagnitude(time))
            IN  IF set.ok THEN set.pose ELSE refAxes
       /\ enableAllControllers(TRUE)
       /\ signals' = {"enableAllControllers"}
       /\ UNCHANGED << screw, prevScrew, moveRequested, moveDone, moveStartTime,
                       axisViz, helixViz, screwSpeed, sceneVars >>

\* animate, second branch: a move is under way
AnimateMoving(time) ==
  IF MoveCompletes(time)
  THEN /\ moveDone' = TRUE
       /\ refAxes' = setThreeObjectPoseFromScrew(screw, screw.magnitude).pose
       /\ enableAllControllers(TRUE)
       /\ signals' = {"enableAllControllers"}
       /\ UNCHANGED << screw, prevScrew, moveRequested, moveStartTime, axisViz,
                       helixViz, screwSpeed, sceneVars >>
  ELSE /\ refAxes' =
            LET set == setThreeObjectPoseFromScrew(screw, advancedMagnitude(time))
            IN  IF set.ok THEN set.pose ELSE refAxes
       /\ signals' = {}
       /\ UNCHANGED << screw, prevScrew, moveRequested, moveDone, moveStartTime,
                       axisViz, helixViz, screwSpeed, sceneVars,
                       controllersEnabled >>

\* animate, second branch: setThreeObjectPoseFromScrew throws
AnimateThrows(time) ==
  /\ ~moveRequested
  /\ ~moveDone
  /\ ~MoveCompletes(time)
  /\ ~setThreeObjectPoseFromScrew(screw, advancedMagnitude(time)).ok

\* variant: the second branch does not look at moveDone
AnimateAtTimeNeverIdle(tick, time) ==
  /\ tick >= clock
  /\ clock' = tick
  /\ lastOp' = Op("animate", AnimateThrows(time))
  /\ IF moveRequested THEN AnimateRequested(time)
     ELSE AnimateMoving(time)
  /\ UNCHANGED configVars

\* Application.animate(time), the call of tick number tick; the time does
\* not decrease from one call to the next
AnimateAtTime(tick, time) ==
  /\ tick >= clock
  /\ clock' = tick
  /\ lastOp' = Op("animate", AnimateThrows(time))
  /\ IF moveRequested THEN AnimateRequested(time)
     ELSE IF ~moveDone THEN AnimateMoving(time)
     ELSE /\ signals' = {}
          /\ UNCHANGED << appVars, sceneVars, controllersEnabled >>
  /\ UNCHANGED configVars

\* animate called once a second
Animate(tick) == AnimateAtTime(tick, TimeOf(tick))

(***************************************************************************)
(* GuiHelper: the move and reset buttons.                                  *)
(***************************************************************************)
\* variant: the move button leaves the inputs as they are
GuiMoveInputsEnabled ==
  /\ addedToGui
  /\ ApplicationMove
  /\ lastOp' = Op("move", FALSE)
  /\ signals' = {}
  /\ UNCHANGED << screw, prevScrew, moveDone, moveStartTime, axisViz, helixViz,
                  screwSpeed, refAxes, configVars, sceneVars, clock,
                  controllersEnabled >>

\* GuiHelper.move
GuiMove ==
  /\ addedToGui
  /\ enableAllControllers(FALSE)
  /\ ApplicationMove
  /\ lastOp' = Op("move", FALSE)
  /\ signals' = {}
  /\ UNCHANGED << screw, prevScrew, moveDone, moveStartTime, axisViz, helixViz,
                  screwSpeed, refAxes, configVars, sceneVars, clock >>

\* GuiHelper.reset
GuiReset ==
  /\ addedToGui
  /\ enableAllControllers(TRUE)
  /\ ApplicationReset
  /\ lastOp' = Op("reset", FALSE)
  /\ UNCHANGED << configVars, clock >>

Next ==
  \/ \E s \in Screws : UpdateScrew(s)
  \/ Move
  \/ Reset
  \/ \E tick \in 0..MaxTick : Animate(tick)
  \/ GuiMove
  \/ GuiReset

Spec == Init /\ [][Next]_vars

(***************************************************************************)
(* Runs of the page: the gui was passed in, and move and reset are the     *)
(* buttons of the gui.                                                     *)
(***************************************************************************)
GuiInit == Init /\ addedToGui

\* an input field was edited: changeCallback calls inputCallback(screw)
GuiUpdateScrew(s) == addedToGui /\ UpdateScrew(s)

GuiNext ==
  \/ \E s \in Screws : GuiUpdateScrew(s)
  \/ GuiMove
  \/ GuiReset
  \/ \E tick \in 0..MaxTick : Animate(tick)

GuiSpec == GuiInit /\ [][GuiNext]_vars

(***************************************************************************)
(* Timed runs: the render loop calls animate frame after frame, and the   *)
(* commands come only while no move is requested or under way.             *)
(***************************************************************************)
MaxFrame == MaxStartFrame + (maxTime + 1) * FramesPerSecond

Frames == 0..MaxFrame

\* clock.getElapsedTime() at a frame
FrameTime(frame) == (frame * Scale) \div FramesPerSecond

Idle == moveDone /\ ~moveRequested

IdleUpdateScrew(s) == Idle /\ UpdateScrew(s)

IdleMove == Idle /\ clock < MaxStartFrame /\ Move

IdleReset == Idle /\ Reset

\* a request is taken at frame MaxStartFrame at the latest
Frame(frame) ==
  /\ moveRequested => frame <= MaxStartFrame
  /\ AnimateAtTime(frame, FrameTime(frame))

\* the clock runs: a frame comes at a later time than the one before (in
\* MoveNext only a frame changes the clock)
TimePasses ==
  /\ clock' \in Frames
  /\ clock' > clock
  /\ moveRequested => clock' <= MaxStartFrame

MoveNext ==
  \/ \E s \in TimedScrews : IdleUpdateScrew(s)
  \/ IdleMove
  \/ IdleReset
  \/ \E frame \in Frames : Frame(frame)

\* requestAnimationFrame calls animate again and again, and the clock runs
MoveSpec == Init /\ [][MoveNext]_vars /\ WF_clock(TimePasses)

(***************************************************************************)
(* Matrices of 3 x 3 numbers (mathjs sin, cos, acos, trace, det, inv and   *)
(* the matrix forms of add, subtract and multiply), and the transform as   *)
(* the pair of its rotation matrix and its translation.                    *)
(***************************************************************************)
RECURSIVE Series(_, _, _)
\* term and the terms after it of the power series of sin or cos, where the
\* term after t is -t * x2 / (k * (k + 1)); summed until a term rounds to 0
Series(term, k, x2) ==
  IF term = 0 THEN 0
  ELSE term + Series(0 - Div(Mul(term, x2), Num(k * (k + 1))), k + 2, x2)

sin(x) == Series(x, 2, Mul(x, x))

cos(x) == Series(One, 1, Mul(x, x))

RECURSIVE AcosSearch(_, _, _)
\* the largest angle in lo..hi whose cosine is at least c
AcosSearch(lo, hi, c) ==
  IF lo >= hi THEN lo
  ELSE LET mid == (lo + hi + 1) \div 2
       IN  IF cos(mid) >= c THEN AcosSearch(mid, hi, c)
           ELSE AcosSearch(lo, mid - 1, c)

\* acos of a number from -1 to 1, an angle from 0 to PI
acos(c) == AcosSearch(0, PI, c)

\* identity(3)
Identity3 == << <<One, 0, 0>>, <<0, One, 0>>, <<0, 0, One>> >>

vectorHat(vector) ==
  << <<0, 0 - vector[3], vector[2]>>,
     <<vector[3], 0, 0 - vector[1]>>,
     <<0 - vector[2], vector[1], 0>> >>

addMatrix(A, B) == [i \in 1..3 |-> [j \in 1..3 |-> A[i][j] + B[i][j]]]

subtractMatrix(A, B) == [i \in 1..3 |-> [j \in 1..3 |-> A[i][j] - B[i][j]]]

\* multiply(A, k) for a number k
scaleMatrix(A, k) == [i \in 1..3 |-> [j \in 1..3 |-> Mul(A[i][j], k)]]

\* multiply(A, B) for two matrices
multiplyMatrix(A, B) ==
  [i \in 1..3 |-> [j \in 1..3 |->
     Mul(A[i][1], B[1][j]) + Mul(A[i][2], B[2][j]) + Mul(A[i][3], B[3][j])]]

\* multiply(A, v) for a vector v
multiplyMatrixVector(A, v) ==
  << dot(A[1], v), dot(A[2], v), dot(A[3], v) >>

trace(A) == A[1][1] + A[2][2] + A[3][3]

\* the determinant of the 2 x 2 matrix left of A without row i and column j,
\* with the sign of the place
Cofactor(A, i, j) ==
  LET r1 == IF i = 1 THEN 2 ELSE 1
      r2 == IF i = 3 THEN 2 ELSE 3
      c1 == IF j = 1 THEN 2 ELSE 1
      c2 == IF j = 3 THEN 2 ELSE 3
      minor == Mul(A[r1][c1], A[r2][c2]) - Mul(A[r1][c2], A[r2][c1])
  IN  IF (i + j) % 2 = 0 THEN minor ELSE 0 - minor

det(A) ==
  Mul(A[1][1], Cofactor(A, 1, 1)) + Mul(A[1][2], Cofactor(A, 1, 2))
    + Mul(A[1][3], Cofactor(A, 1, 3))

\* inv throws on a matrix of determinant 0
invThrows(A) == det(A) = 0

\* the cofactors, transposed, over the determinant d, of either sign
inv(A) ==
  LET d == det(A)
  IN  [i \in 1..3 |-> [j \in 1..3 |->
         IF d < 0 THEN Div(0 - Cofactor(A, j, i), 0 - d)
         ELSE Div(Cofactor(A, j, i), d)]]

\* a transform: rotationMatrixFromTransform and translationFromTransform
NewTransform(R, translation) == [R |-> R, translation |-> translation]

\* Rodrigues' formula carried out
RotationMatrix(rot) ==
  IF rot = IdentityRotation THEN Identity3
  ELSE LET axisHat == vectorHat(rot.axis)
       IN  addMatrix(addMatrix(Identity3, scaleMatrix(axisHat, sin(rot.angle))),
                     scaleMatrix(multiplyMatrix(axisHat, axisHat),
                                 One - cos(rot.angle)))

\* the matrix that Twist.getTransform returns: the rotation R and the
\* translation (I - R) * offset + along
TransformMatrix(transform) ==
  LET R == RotationMatrix(transform.rot)
  IN  NewTransform(R,
        add(multiplyMatrixVector(subtractMatrix(Identity3, R), transform.offset),
            transform.along))

axisAngleFromRotationMatrix(R) ==
  IF R = Identity3 THEN Zero3
  ELSE LET angle == acos(Mul(trace(R) - One, One \div 2))
           vector == << R[3][2] - R[2][3], R[1][3] - R[3][1], R[2][1] - R[1][2] >>
       IN  \* 0 * k is 0: the k that follows is finite, as
           \* Math.sin(Math.acos(-1)) is not 0
           IF vector = Zero3 THEN Zero3
           ELSE multiply(vector, Div(Abs(angle), 2 * sin(angle)))

\* [ok |-> FALSE] stands for the Error that inv throws
TwistFromTransform(transform) ==
  IF transform.R = Identity3
  THEN [ok |-> TRUE, value |-> NewTwist(transform.translation, Zero3)]
  ELSE
    LET axisWithAngle == axisAngleFromRotationMatrix(transform.R)
        theta == norm(axisWithAngle)
        w == normalizeVector(axisWithAngle)
        wHat == vectorHat(w)
        A == addMatrix(
               multiplyMatrix(subtractMatrix(Identity3, transform.R), wHat),
               scaleMatrix(addMatrix(multiplyMatrix(wHat, wHat), Identity3), theta))
        v == multiplyMatrixVector(inv(A), transform.translation)
    IN  IF equal(norm(transform.translation), Zero)
        THEN [ok |-> TRUE, value |-> NewTwist(Zero3, axisWithAngle)]
        ELSE IF invThrows(A)
        THEN [ok |-> FALSE, value |-> NewTwist(Zero3, Zero3)]
        ELSE [ok |-> TRUE, value |-> NewTwist(multiply(v, theta), axisWithAngle)]

\* variant: no conventional values for the zero twist
fromTwistWithoutConvention(twist) ==
  LET twistNorm == TwistNorm(twist)
      of ==
        IF TwistIsPureTranslation(twist)
        THEN [pitch |-> Infinity, point |-> Zero3,
              direction |-> normalizeVector(twist.linear)]
        ELSE LET point == cross(twist.angular, twist.linear)
             IN  [pitch |-> Div(dot(twist.angular, twist.linear),
                                Mul(twistNorm, twistNorm)),
                  point |-> << Div(point[1], Mul(twistNorm, twistNorm)),
                               Div(point[2], Mul(twistNorm, twistNorm)),
                               Div(point[3], Mul(twistNorm, twistNorm)) >>,
                  direction |-> normalizeVector(twist.angular)]
  IN  [ok |-> /\ ~AxisThrows(of.point, of.direction)
              /\ ~ScrewThrows(NewAxis(of.point, of.direction), of.pitch, twistNorm),
       value |-> NewScrew(NewAxis(of.point, of.direction), of.pitch, twistNorm)]

\* Screw.fromTwist: [ok |-> FALSE] stands for the Error of a constructor
fromTwist(twist) ==
  LET twistNorm == TwistNorm(twist)
      of ==
        IF equal(twistNorm, Zero)
        THEN [pitch |-> Infinity, point |-> Zero3, direction |-> Vec(0, 0, 1)]
        ELSE IF TwistIsPureTranslation(twist)
        THEN [pitch |-> Infinity, point |-> Zero3,
              direction |-> normalizeVector(twist.linear)]
        ELSE LET point == cross(twist.angular, twist.linear)
             IN  [pitch |-> Div(dot(twist.angular, twist.linear),
                                Mul(twistNorm, twistNorm)),
                  point |-> << Div(point[1], Mul(twistNorm, twistNorm)),
                               Div(point[2], Mul(twistNorm, twistNorm)),
                               Div(point[3], Mul(twistNorm, twistNorm)) >>,
                  direction |-> normalizeVector(twist.angular)]
  IN  [ok |-> /\ ~AxisThrows(of.point, of.direction)
              /\ ~ScrewThrows(NewAxis(of.point, of.direction), of.pitch, twistNorm),
       value |-> NewScrew(NewAxis(of.point, of.direction), of.pitch, twistNorm)]

\* Screw.fromTransform
fromTransform(transform) ==
  LET twist == TwistFromTransform(transform)
  IN  IF twist.ok THEN fromTwist(twist.value)
      ELSE [ok |-> FALSE, value |-> defaultScrew]

(***************************************************************************)
(* Calls of the value types, Axis, Twist and Screw, on arguments drawn     *)
(* from small sets; the application is left as it was constructed.         *)
(***************************************************************************)
Coordinates == (0 - MaxCoord)..MaxCoord

Vectors == { Vec(x, y, z) : x, y, z \in Coordinates }

\* the axes, pitches and magnitudes a Screw is constructed from
Axes ==
  { NewAxis(point, direction) :
      point \in {Zero3, Vec(1, 0, 0), <<One \div 2, One \div 2, Zero>>},
      direction \in {Vec(0, 0, 1), Vec(1, 0, 0), Vec(1, 1, 0)} }

Pitches == {0 - One, Zero, One \div 2, Infinity}

Magnitudes == {0 - One, 0 - 1, Zero, One \div 2, One, Num(2)}

\* the outcome of a call: the Error thrown, or the value returned
Outcome(name, arguments, threw, value) ==
  [op |-> name, args |-> arguments, threw |-> threw,
   result |-> IF threw THEN <<>> ELSE value]

\* a call leaves the application alone
Call(outcome) ==
  /\ call' = outcome
  /\ UNCHANGED << appVars, sceneVars, usingScene, resetCameraView, addedToGui,
                  controllersEnabled, clock, lastOp, signals >>

\* new Axis(point, direction)
ConstructAxis(point, direction) ==
  Call(Outcome("Axis", <<point, direction>>, AxisThrows(point, direction),
               NewAxis(point, direction)))

\* the screws that can be constructed from these
ValueScrews ==
  { NewScrew(t[1], t[2], t[3]) :
      t \in { u \in Axes \X Pitches \X Magnitudes : ~ScrewThrows(u[1], u[2], u[3]) } }

\* the magnitudes a screw is asked about: below 0, within its range, at its
\* magnitude, just above it and far above it
Queries(s) == Magnitudes \cup {s.magnitude + 1, s.magnitude + One, Num(5)}

\* screw.getTransformAtMagnitude(magnitude)
GetTransformAtMagnitude(s, magnitude) ==
  LET got == getTransformAtMagnitude(s, magnitude)
  IN  Call(Outcome("getTransformAtMagnitude", <<s, magnitude>>, ~got.ok, got.value))

\* screw.getTwistAtMagnitude(magnitude)
GetTwistAtMagnitude(s, magnitude) ==
  LET got == getTwistAtMagnitude(s, magnitude)
  IN  Call(Outcome("getTwistAtMagnitude", <<s, magnitude>>, ~got.ok, got.value))

\* new Screw(axis, pitch, magnitude)
ConstructScrew(axis, pitch, magnitude) ==
  Call(Outcome("Screw", <<axis, pitch, magnitude>>,
               ScrewThrows(axis, pitch, magnitude),
               NewScrew(axis, pitch, magnitude)))

\* rotation matrices of entries 0, 1 and -1: no rotation, a quarter of a turn
\* about z and about x, a third of a turn about [1, 1, 1], half a turn about z
Rotations ==
  { Identity3,
    << <<0, 0 - One, 0>>, <<One, 0, 0>>, <<0, 0, One>> >>,
    << <<One, 0, 0>>, <<0, 0, 0 - One>>, <<0, One, 0>> >>,
    << <<0, 0, One>>, <<One, 0, 0>>, <<0, One, 0>> >>,
    << <<0 - One, 0, 0>>, <<0, 0 - One, 0>>, <<0, 0, One>> >> }

\* the rigid transforms converted to a twist or a screw
Transforms ==
  { NewTransform(R, translation) : R \in Rotations, translation \in Vectors }

\* one call is made in a run
AxisCalls ==
  /\ call = NoCall
  /\ \E point, direction \in Vectors : ConstructAxis(point, direction)

ScrewCalls ==
  /\ call = NoCall
  /\ \E axis \in Axes, pitch \in Pitches, magnitude \in Magnitudes :
       ConstructScrew(axis, pitch, magnitude)

TransformAtMagnitudeCalls ==
  /\ call = NoCall
  /\ \E s \in ValueScrews :
       \E magnitude \in Queries(s) : GetTransformAtMagnitude(s, magnitude)

TwistAtMagnitudeCalls ==
  /\ call = NoCall
  /\ \E s \in ValueScrews :
       \E magnitude \in Queries(s) : GetTwistAtMagnitude(s, magnitude)

\* Twist.fromTransform(g).getTransform()
TwistRoundTripCalls ==
  /\ call = NoCall
  /\ \E g \in Transforms :
       \E twist \in {TwistFromTransform(g)} :
         Call(Outcome("Twist.fromTransform", <<g>>,
                      ~twist.ok \/ TwistGetTransformThrows(twist.value),
                      [via |-> twist.value,
                       transform |-> TransformMatrix(TwistGetTransform(twist.value))]))

\* Screw.fromTransform(g).getTransform()
ScrewRoundTripCalls ==
  /\ call = NoCall
  /\ \E g \in Transforms :
       \E s \in {fromTransform(g)} :
         \E got \in {IF s.ok THEN getTransform(s.value)
                     ELSE [ok |-> FALSE, value |-> IdentityTransform]} :
           Call(Outcome("Screw.fromTransform", <<g>>, ~got.ok,
                        [via |-> s.value,
                         transform |-> TransformMatrix(got.value)]))

\* Screw.fromTwist(twist), and getTransform() of the screw it returns
FromTwistCalls ==
  /\ call = NoCall
  /\ \E linear, angular \in Vectors :
       \E s \in {fromTwist(NewTwist(linear, angular))} :
         \E got \in {IF s.ok THEN getTransform(s.value)
                     ELSE [ok |-> FALSE, value |-> IdentityTransform]} :
           Call(Outcome("Screw.fromTwist", <<NewTwist(linear, angular)>>, ~s.ok,
                        [screw |-> s.value, threw |-> ~got.ok,
                         transform |-> TransformMatrix(got.value)]))

\* the axes compared: those above, and axes along z, against z and along
\* [3, 4, 0], whose unit direction [0.6, 0.8, 0] has no rounding
ComparedAxes ==
  Axes \cup
  { NewAxis(point, direction) :
      point \in {Zero3, Vec(0, 0, 1), Vec(3, 4, 0)},
      direction \in {Vec(0, 0, 1), Vec(0, 0, 0 - 1), Vec(3, 4, 0)} }

\* the screws compared
ComparedScrews ==
  { NewScrew(axis, pitch, magnitude) :
      axis \in { NewAxis(point, Vec(0, 0, 1)) : point \in {Zero3, Vec(0, 0, 1), Vec(1, 0, 0)} }
             \cup {NewAxis(Zero3, Vec(0, 0, 0 - 1)), NewAxis(Zero3, Vec(3, 4, 0)),
                   NewAxis(Vec(3, 4, 0), Vec(3, 4, 0))},
      pitch \in {Zero, One \div 2, Infinity},
      magnitude \in {Zero, One} }

\* axis.equalTo(other) and other.equalTo(axis)
EqualToCalls ==
  /\ call = NoCall
  /\ \E axis, other \in ComparedAxes :
       Call(Outcome("Axis.equalTo", <<axis, other>>, FALSE,
                    [there |-> equalTo(axis, other), back |-> equalTo(other, axis)]))

\* screw.valuesEqualTo(other)
ValuesEqualToCalls ==
  /\ call = NoCall
  /\ \E s, other \in ComparedScrews :
       Call(Outcome("Screw.valuesEqualTo", <<s, other>>, FALSE,
                    valuesEqualTo(s, other)))

\* screw.getDistanceTravelled(point, magnitude), and with the magnitude left out
DistanceTravelledCalls ==
  /\ call = NoCall
  /\ \E s \in ValueScrews, point \in {Zero3, Vec(1, 0, 0)},
        magnitude \in Magnitudes \cup {Undefined} :
       Call(Outcome("getDistanceTravelled", <<s, point, magnitude>>,
                    getDistanceTravelledThrows(s, point, magnitude),
                    getDistanceTravelled(s, point, magnitude)))

\* GuiHelper.addToGui, changeCallback of a representation, after a field of
\* it was edited: representationToScrew on the fields, the other
\* representations set from the screw, then inputCallback(screw), which is
\* Application.updateScrew. fields are the values the fields hold: of the
\* screw, of the twist, or the transform that the position and the cleaned
\* quaternion give. A thrown Error is recorded by its kind.
ChangeCallbackCalls ==
  /\ call = NoCall
  /\ addedToGui
  /\ \E repr \in {"transform", "twist", "screw"} :
       \E fields \in
            CASE repr = "transform" -> Transforms
              [] repr = "twist" ->
                   { NewTwist(l, a) :
                       l \in Vectors, a \in {Zero3, Vec(0, 0, 1), Vec(1, 0, 1)} }
              [] OTHER ->
                   [point : {Zero3, Vec(1, 0, 0)}, direction : Vectors,
                    pitch : Pitches, magnitude : Magnitudes] :
         \E twist \in {IF repr = "transform" THEN TwistFromTransform(fields)
                       ELSE [ok |-> TRUE, value |-> fields]} :
           \E made \in
                {IF repr = "screw"
                 THEN [ok |-> /\ ~AxisThrows(fields.point, fields.direction)
                              /\ ~ScrewThrows(NewAxis(fields.point, fields.direction),
                                              fields.pitch, Max(Zero, fields.magnitude)),
                       value |-> NewScrew(NewAxis(fields.point, fields.direction),
                                          fields.pitch, Max(Zero, fields.magnitude))]
                 ELSE IF twist.ok THEN fromTwist(twist.value)
                 ELSE [ok |-> FALSE, value |-> defaultScrew]} :
             \E error \in
                  {IF ~twist.ok THEN "inv"
                   ELSE IF ~made.ok THEN "construction"
                   ELSE IF \/ ~getTransformAtMagnitude(made.value, made.value.magnitude).ok
                           \/ ~getTwistAtMagnitude(made.value, made.value.magnitude).ok
                           \/ getDistanceTravelledThrows(made.value, Zero3,
                                                         made.value.magnitude)
                   THEN "query range"
                   ELSE "none"} :
               /\ call' = [op |-> "changeCallback", args |-> <<repr, fields>>,
                           threw |-> error # "none",
                           result |-> IF error # "none" THEN error ELSE made.value]
               /\ IF error # "none"
                  THEN UNCHANGED << screw, screwSpeed, refAxes, lastOp, signals >>
                  ELSE /\ screw' = made.value
                       /\ screwSpeed' = getScrewSpeed(made.value)
                       /\ refAxes' =
                            setThreeObjectPoseFromScrew(made.value, Undefined).pose
                       /\ lastOp' = Op("updateScrew", FALSE)
                       /\ signals' = {}
               /\ UNCHANGED << prevScrew, moveRequested, moveDone, moveStartTime,
                               axisViz, helixViz, sceneVars, usingScene,
                               resetCameraView, addedToGui, controllersEnabled,
                               clock >>

ValueNext ==
  \/ AxisCalls
  \/ ScrewCalls
  \/ TransformAtMagnitudeCalls
  \/ TwistAtMagnitudeCalls
  \/ TwistRoundTripCalls
  \/ ScrewRoundTripCalls
  \/ FromTwistCalls
  \/ EqualToCalls
  \/ ValuesEqualToCalls
  \/ DistanceTravelledCalls
  \/ ChangeCallbackCalls

ValueSpec == Init /\ [][ValueNext]_vars

(***************************************************************************)
(* Properties of the controller.                                           *)
(***************************************************************************)
Ticks == 0..MaxTick

\* the pose of the default screw
DefaultPose == setThreeObjectPoseFromScrew(defaultScrew, Undefined).pose

\* the pose of a screw at one of its magnitudes
PoseAt(s, magnitude) ==
  setThreeObjectPoseFromTransform(getTransformAtMagnitude(s, magnitude).value)

\* the step is the call animate(TimeOf(tick))
AnimateAt(tick) == lastOp'.op = "animate" /\ clock' = tick /\ Animate(tick)

\* the latest call was animate and found a request / a move under way
TookRequest == lastOp.op = "animate" /\ lastOp.requested

Advanced == lastOp.op = "animate" /\ ~lastOp.requested /\ ~lastOp.done

\* C1: an animate(time) call that finds a move request pending clears the
\* request, sets moveDone to false, puts the frame at the default screw's
\* pose, stores the current screw as prevScrew and time as moveStartTime; the
\* move is never done in the call that takes its request, whatever the
\* magnitude of the screw.
C1_RequestConsumed ==
  [][\A tick \in Ticks :
       (moveRequested /\ AnimateAt(tick)) =>
         /\ ~moveRequested'
         /\ ~moveDone'
         /\ refAxes' = DefaultPose
         /\ prevScrew' = screw
         /\ screw' = screw
         /\ moveStartTime' = Num(tick)]_vars

\* a request for a zero-magnitude move has just been taken, at a time after 0
C1_Witness ==
  /\ TookRequest
  /\ equal(screw.magnitude, Zero)
  /\ ~moveDone
  /\ clock > 0
  /\ moveStartTime = Num(clock)

\* C2: with no request pending and moveDone false, animate(time) computes
\* advanced = screwSpeed * (time - moveStartTime); when advanced reaches the
\* screw's magnitude the move is done and the frame is exactly at the screw's
\* full-magnitude transform; otherwise the move stays not done and the frame
\* is at the screw's transform at advanced.
C2_Advance ==
  [][\A tick \in Ticks :
       (~moveRequested /\ ~moveDone /\ AnimateAt(tick)) =>
         LET advanced == Mul(screwSpeed, Num(tick) - moveStartTime)
         IN  IF advanced >= screw.magnitude
             THEN /\ moveDone'
                  /\ refAxes' = PoseAt(screw, screw.magnitude)
             ELSE /\ ~moveDone'
                  /\ getTransformAtMagnitude(screw, advanced).ok
                  /\ refAxes' = PoseAt(screw, advanced)]_vars

\* a move has just been completed by a call whose advanced magnitude is
\* beyond the magnitude of the screw
C2_Witness ==
  /\ Advanced
  /\ moveDone
  /\ screw.magnitude > 0
  /\ Mul(screwSpeed, Num(clock) - moveStartTime) > screw.magnitude
  /\ refAxes = PoseAt(screw, screw.magnitude)

C4_RetriggerKeepsViz ==
  [][\A tick \in Ticks :
       (/\ AnimateAt(tick)
        /\ moveRequested
        /\ moveStartTime # Undefined
        /\ screw = prevScrew) =>
         /\ axisViz' = axisViz
         /\ helixViz' = helixViz
         /\ signals' = {}
         /\ scene' = scene
         /\ usingScene => ({axisViz', helixViz'} \ {NoViz}) \subseteq scene']_vars

\* a request found while the move of a screw with axis and helix viz was
\* under way has just been taken, and the viz is the one made before
C4_Witness ==
  /\ TookRequest
  /\ ~lastOp.done
  /\ screw = prevScrew
  /\ signals = {}
  /\ axisViz # NoViz
  /\ helixViz # NoViz
  /\ {axisViz, helixViz} \subseteq scene

\* C5: move() while moveDone is false, then animate(t): the frame goes back
\* to the default pose, moveDone stays false and moveStartTime becomes t; the
\* move is done only once screwSpeed * (time - t) reaches the magnitude.
C5_RestartDiscardsProgress ==
  [][\A tick \in Ticks :
       /\ (moveRequested /\ ~moveDone /\ AnimateAt(tick)) =>
            /\ refAxes' = DefaultPose
            /\ ~moveDone'
            /\ moveStartTime' = Num(tick)
       /\ (/\ AnimateAt(tick)
           /\ ~moveRequested
           /\ ~moveDone
           /\ Mul(screwSpeed, Num(tick) - moveStartTime) < screw.magnitude) =>
            ~moveDone']_vars

\* a move has been triggered again while under way, at a time after 0, and
\* measured from time 0 it would be over
C5_Witness ==
  /\ TookRequest
  /\ ~lastOp.done
  /\ ~moveDone
  /\ clock > 0
  /\ moveStartTime = Num(clock)
  /\ screw.magnitude > 0
  /\ Mul(screwSpeed, Num(clock)) >= screw.magnitude
  /\ refAxes = DefaultPose

\* C6: reset() in any state leaves screw = prevScrew = defaultScrew,
\* moveRequested false, moveDone true, moveStartTime undefined, the frame at
\* the default pose, both viz fields undefined and neither of the objects they
\* held in the scene, and calls the view-reset callback that was passed in.
C6_Reset ==
  [][(Reset \/ GuiReset) =>
       /\ screw' = defaultScrew
       /\ prevScrew' = defaultScrew
       /\ ~moveRequested'
       /\ moveDone'
       /\ moveStartTime' = Undefined
       /\ refAxes' = DefaultPose
       /\ refAxes' = setThreeObjectPoseFromTransform(IdentityTransform)
       /\ axisViz' = NoViz
       /\ helixViz' = NoViz
       /\ axisViz \notin scene'
       /\ helixViz \notin scene'
       /\ resetCameraView => "resetCameraView" \in signals']_vars

\* reset() has just been called while a move was under way and another was
\* requested; it took the axis and helix viz out of the scene and reset the
\* view
C6_Witness ==
  /\ lastOp.op = "reset"
  /\ lastOp.requested
  /\ ~lastOp.done
  /\ signals = {"resetCameraView", "scene.remove"}
  /\ allocated = 2
  /\ disposed = {1, 2}
  /\ scene = {RefAxesId}

\* C7: with no move triggered since the reset (moveStartTime is undefined),
\* taking the request for a screw of non-zero magnitude makes viz objects
\* that did not exist before and adds them to the scene.
C7_FreshVizAfterReset ==
  [][\A tick \in Ticks :
       (/\ AnimateAt(tick)
        /\ moveRequested
        /\ moveStartTime = Undefined
        /\ ~equal(screw.magnitude, Zero)) =>
         /\ axisViz' > allocated
         /\ axisViz' \notin disposed
         /\ usingScene => axisViz' \in scene'
         /\ ~passesThroughOrigin(screw.axis) =>
              /\ helixViz' > allocated
              /\ helixViz' # axisViz'
              /\ usingScene => helixViz' \in scene']_vars

\* the second axis viz ever made is in the scene, made by the call that took
\* the first request after a reset; the first one was removed by the reset,
\* so this call had nothing to remove
C7_Witness ==
  /\ TookRequest
  /\ lastOp.done
  /\ signals = {"getAxisThreeViz", "scene.add"}
  /\ allocated = 2
  /\ disposed = {1}
  /\ axisViz = 2
  /\ scene = {RefAxesId, 2}
  /\ moveStartTime = Num(clock)

\* C8: every object in the scene other than the frame is the object held by
\* axisViz or by helixViz, so the scene has at most one axis viz and one
\* helix viz.
C8_SceneHoldsCurrentViz ==
  /\ scene \ {RefAxesId} \subseteq {axisViz, helixViz} \ {NoViz}
  /\ \A kind \in {"axis", "helix"} :
       Cardinality({ m \in meshes : m.id \in scene /\ m.kind = kind }) <= 1

\* axis and helix viz have just replaced the viz of another screw in the scene
C8_Witness ==
  /\ TookRequest
  /\ signals = {"scene.remove", "getAxisThreeViz", "getHelixThreeViz", "scene.add"}
  /\ disposed # {}
  /\ scene = {RefAxesId, axisViz, helixViz}

\* C9: commands between two animate calls coalesce.  move() only sets the
\* request, and a second move() changes nothing; updateScrew(s) leaves the
\* request as it is; the next animate takes the request once, with the screw
\* field as it then is, and an animate that finds no request starts nothing.
C9_Coalesce ==
  [][/\ (Move \/ GuiMove) =>
          /\ moveRequested'
          /\ UNCHANGED << screw, prevScrew, moveDone, moveStartTime,
                          screwSpeed, axisViz, helixViz, scene >>
     /\ ((Move \/ GuiMove) /\ moveRequested) => UNCHANGED appVars
     /\ \A s \in Screws :
          UpdateScrew(s) =>
            /\ screw' = s
            /\ UNCHANGED << moveRequested, prevScrew, moveStartTime >>
     /\ \A tick \in Ticks :
          /\ (moveRequested /\ AnimateAt(tick)) =>
               /\ ~moveRequested'
               /\ prevScrew' = screw
               /\ moveStartTime' = Num(tick)
               /\ ("getAxisThreeViz" \in signals') <=>
                    (/\ ~valuesEqualTo(prevScrew, screw)
                     /\ ~equal(screw.magnitude, Zero))
          /\ (~moveRequested /\ AnimateAt(tick)) =>
               /\ ~moveRequested'
               /\ UNCHANGED << prevScrew, moveStartTime, axisViz, helixViz >>
    ]_vars

\* move() has just been called with a request already pending and a screw
\* that was set after the previous trigger
C9_Witness ==
  /\ lastOp.op = "move"
  /\ lastOp.requested
  /\ moveRequested
  /\ screw # prevScrew
  /\ moveStartTime # Undefined

\* C10 as stated: none of move(), reset() and updateScrew() changes the pose
\* of the frame, the viz fields or the scene when it is called.
C10_CommandsTouchNothing ==
  [][(Move \/ GuiMove \/ Reset \/ GuiReset \/ \E s \in Screws : UpdateScrew(s)) =>
       UNCHANGED << refAxes, axisViz, helixViz, scene >>]_vars

\* C10: move() changes neither the pose of the frame nor the viz fields nor
\* the scene when it is called; updateScrew(s) leaves the viz fields and the
\* scene alone and puts the frame at the full-magnitude pose of s at once;
\* reset() at once puts the frame at the default pose, clears both viz fields
\* and takes their objects out of the scene.
C10_OnlyMoveIsDeferred ==
  [][/\ (Move \/ GuiMove) => UNCHANGED << refAxes, axisViz, helixViz, scene >>
     /\ \A s \in Screws :
          UpdateScrew(s) =>
            /\ refAxes' = PoseAt(s, s.magnitude)
            /\ UNCHANGED << axisViz, helixViz, scene >>
     /\ (Reset \/ GuiReset) =>
          /\ refAxes' = DefaultPose
          /\ axisViz' = NoViz
          /\ helixViz' = NoViz
          /\ scene' = scene \ {axisViz, helixViz}
    ]_vars

\* updateScrew has just moved the frame away from the default pose, with no
\* move requested or under way
C10_Witness ==
  /\ lastOp.op = "updateScrew"
  /\ ~lastOp.requested
  /\ lastOp.done
  /\ refAxes # DefaultPose
  /\ refAxes = PoseAt(screw, screw.magnitude)

\* C11 as stated: updateScrew(s) puts the frame at the pose of s at magnitude
\* 0, the start of the motion, for every screw s.
C11_PreviewAtStart ==
  [][\A s \in Screws : UpdateScrew(s) => refAxes' = PoseAt(s, Zero)]_vars

\* C11: updateScrew(s) puts the frame at the pose of s at its full magnitude,
\* the end of the motion, for every screw s; no magnitude is passed, and
\* setThreeObjectPoseFromScrew then takes the magnitude of the screw.
C11_PreviewAtEnd ==
  [][\A s \in Screws :
       UpdateScrew(s) =>
         /\ getTransformAtMagnitude(s, s.magnitude).ok
         /\ refAxes' = PoseAt(s, s.magnitude)]_vars

\* updateScrew has just been called, while a move was under way, with a screw
\* whose end pose is not its start pose, and the frame is at the end pose
C11_Witness ==
  /\ lastOp.op = "updateScrew"
  /\ ~lastOp.done
  /\ screw.magnitude > 0
  /\ PoseAt(screw, screw.magnitude) # PoseAt(screw, Zero)
  /\ refAxes = PoseAt(screw, screw.magnitude)

\* C12: in every reachable state screwSpeed is the speed getScrewSpeed derives
\* from the screw field (magnitude over the time clamped to the window), after
\* construction, after updateScrew and after reset alike.
C12_SpeedDerivedFromScrew == screwSpeed = getScrewSpeed(screw)

\* the step is the call animate(FrameTime(frame)) of a timed run
FrameAt(frame) == lastOp'.op = "animate" /\ clock' = frame /\ Frame(frame)

\* C13: in a timed run, where no command comes between the trigger of a move
\* and its end, the move of a screw of non-zero magnitude takes the time
\* T = magnitude / screwSpeed, which lies in [minTime, maxTime] = [1, 6]: a
\* frame leaves the move done exactly when its time is at least
\* moveStartTime + T, so never before moveStartTime + 1 and always from
\* moveStartTime + 6 on; and as the frames go on at later and later times,
\* every move that is triggered becomes done.
C13_TimeWindow ==
  /\ [][\A frame \in Frames :
          (/\ ~moveRequested
           /\ ~moveDone
           /\ screw.magnitude > 0
           /\ FrameAt(frame)) =>
            LET elapsed == FrameTime(frame) - moveStartTime
                T == Div(screw.magnitude, screwSpeed)
            IN  /\ Num(minTime) <= T
                /\ T <= Num(maxTime)
                /\ moveDone' <=> elapsed >= T
                /\ elapsed < Num(minTime) => ~moveDone'
                /\ elapsed >= Num(maxTime) => moveDone']_vars
  /\ (moveRequested \/ ~moveDone) ~> (moveDone /\ ~moveRequested)

\* the long translation, whose time is cut to maxTime, has just become done,
\* by the frame exactly maxTime after the start of the move
C13_Witness ==
  /\ Advanced
  /\ moveDone
  /\ screw = longTranslationScrew
  /\ FrameTime(clock) - moveStartTime = Num(maxTime)

\* C14: when move and reset come through the gui, the controllers are
\* disabled exactly while a move is requested or under way; the steps that
\* enable them again are the animate call that completes the move and the
\* reset, and each of these leaves them enabled.
C14_InputsDisabledWhileMoving ==
  /\ [](controllersEnabled <=> (moveDone /\ ~moveRequested))
  /\ [][/\ (~controllersEnabled /\ controllersEnabled') =>
             \/ GuiReset
             \/ /\ lastOp'.op = "animate"
                /\ ~moveRequested
                /\ ~moveDone
                /\ moveDone'
        /\ GuiMove => ~controllersEnabled'
        /\ GuiReset => controllersEnabled'
        /\ (lastOp'.op = "animate" /\ ~moveDone /\ moveDone') =>
             controllersEnabled'
       ]_vars

\* the animate call that completed a move of non-zero magnitude, triggered by
\* the button, has just enabled the controllers again
C14_Witness ==
  /\ addedToGui
  /\ Advanced
  /\ moveDone
  /\ screw.magnitude > 0
  /\ controllersEnabled
  /\ signals = {"enableAllControllers"}

\* C15: with times that do not decrease, and whatever move, reset and
\* updateScrew calls come between the animate calls, animate never throws:
\* the call that takes a request evaluates the default screw at its own
\* magnitude, and a call that finds a move under way finds moveStartTime set
\* and evaluates the screw at a magnitude within [0, screw.magnitude], which
\* getTransformAtMagnitude accepts.
C15_AnimateNeverThrows ==
  [][\A tick \in Ticks :
       /\ AnimateAt(tick) => ~lastOp'.threw
       /\ (moveRequested /\ AnimateAt(tick)) =>
            getTransformAtMagnitude(defaultScrew, defaultScrew.magnitude).ok
       /\ (~moveRequested /\ ~moveDone /\ AnimateAt(tick)) =>
            LET magnitude == advancedMagnitude(TimeOf(tick))
                evaluated == IF magnitude >= screw.magnitude
                             THEN screw.magnitude ELSE magnitude
            IN  /\ moveStartTime # Undefined
                /\ Zero <= evaluated
                /\ evaluated <= screw.magnitude
                /\ getTransformAtMagnitude(screw, evaluated).ok
                /\ refAxes' = PoseAt(screw, evaluated)]_vars

\* a move was under way when updateScrew replaced the screw, and the animate
\* call after it has just put the frame part of the way along the new screw
C15_Witness ==
  /\ Advanced
  /\ ~moveDone
  /\ ~lastOp.threw
  /\ screw # prevScrew
  /\ advancedMagnitude(TimeOf(clock)) > Zero
  /\ advancedMagnitude(TimeOf(clock)) < screw.magnitude
  /\ refAxes = PoseAt(screw, advancedMagnitude(TimeOf(clock)))

(***************************************************************************)
(* Properties of the value types.                                          *)
(***************************************************************************)
\* what the rounding of a product, a quotient or a square root may add up to
Tolerance == Scale \div 500

Close(a, b) == Abs(a - b) <= Tolerance

\* C16: new Axis with a direction of zero norm throws, and new Screw with a
\* negative magnitude throws; an Axis that was constructed has a direction of
\* norm 1, and a Screw that was constructed has a magnitude >= 0.
C16_InvalidConstructionRejected ==
  /\ call.op = "Axis" =>
       /\ call.args[2] = Zero3 => call.threw
       /\ ~call.threw => Close(norm(call.result.direction), One)
  /\ call.op = "Screw" =>
       /\ call.args[3] < Zero => call.threw
       /\ ~call.threw => call.result.magnitude >= Zero

\* an Axis was constructed from a direction that is not of norm 1
C16_Witness ==
  /\ call.op = "Axis"
  /\ ~call.threw
  /\ ~Close(norm(call.args[2]), One)
  /\ call.result.point = call.args[1]
  /\ call.result.direction # call.args[2]

\* C17: getTransformAtMagnitude(m) throws exactly when m < 0 or m is above the
\* magnitude of the screw, so it returns for every m from 0 to the magnitude,
\* both included; getTwistAtMagnitude(m) throws exactly when m < 0, however
\* large m is.
C17_QueryRange ==
  /\ call.op = "getTransformAtMagnitude" =>
       (call.threw <=> (call.args[2] < Zero \/ call.args[2] > call.args[1].magnitude))
  /\ call.op = "getTwistAtMagnitude" =>
       (call.threw <=> call.args[2] < Zero)

\* getTransformAtMagnitude returned a transform other than the identity for
\* the full magnitude of a screw
C17_Witness ==
  /\ call.op = "getTransformAtMagnitude"
  /\ ~call.threw
  /\ call.args[2] = call.args[1].magnitude
  /\ call.args[2] > Zero
  /\ call.result # IdentityTransform

\* what the roundings of a conversion and of the conversion back may add up to
RoundTripTolerance == Scale \div 50

\* every entry of the rotation and of the translation within the tolerance
CloseTransform(a, b) ==
  /\ \A i, j \in 1..3 : Abs(a.R[i][j] - b.R[i][j]) <= RoundTripTolerance
  /\ \A i \in 1..3 : Abs(a.translation[i] - b.translation[i]) <= RoundTripTolerance

\* C18: for every rigid transform g, a pure translation, a pure rotation or a
\* rotation with a translation, Twist.fromTransform(g).getTransform() and
\* Screw.fromTransform(g).getTransform() return, and return g within the
\* tolerance.
C18_RoundTrip ==
  call.op \in {"Twist.fromTransform", "Screw.fromTransform"} =>
    /\ ~call.threw
    /\ CloseTransform(call.result.transform, call.args[1])

\* identity(4)
IdentityMatrix == NewTransform(Identity3, Zero3)

\* C19: Screw.fromTwist of the zero twist returns, and returns a screw of
\* magnitude 0; the full transform of a screw of magnitude 0 is the identity,
\* whatever its axis and its pitch, finite or infinite.
C19_ZeroMagnitudeIsNoMotion ==
  /\ (call.op = "Screw.fromTwist" /\ call.args[1] = NewTwist(Zero3, Zero3)) =>
       /\ ~call.threw
       /\ call.result.screw.magnitude = Zero
  /\ (call.op = "Screw.fromTwist" /\ ~call.threw
        /\ call.result.screw.magnitude = Zero) =>
       /\ ~call.result.threw
       /\ call.result.transform = IdentityMatrix
  /\ (call.op = "getTransformAtMagnitude" /\ call.args[1].magnitude = Zero
        /\ call.args[2] = Zero) =>
       /\ ~call.threw
       /\ TransformMatrix(call.result) = IdentityMatrix

\* the zero twist was converted to a screw, of magnitude 0 and of the
\* conventional axis and pitch, whose full transform is the identity
C19_Witness ==
  /\ call.op = "Screw.fromTwist"
  /\ call.args[1] = NewTwist(Zero3, Zero3)
  /\ ~call.threw
  /\ call.result.screw = NewScrew(NewAxis(Zero3, Vec(0, 0, 1)), Infinity, Zero)
  /\ call.result.transform = IdentityMatrix

\* the directions are the same and the point of b is the point of a moved
\* along the direction by a whole number
SameLine(a, b) ==
  /\ a.direction = b.direction
  /\ \E k \in (0 - 5)..5 :
       b.point = add(a.point, multiply(a.direction, Num(k)))

\* C20: Axis.equalTo is reflexive and symmetric, is true of two axes of the
\* same direction whose points lie on one line, and false of two axes of
\* different directions; Screw.valuesEqualTo is true exactly of two screws of
\* the same line, the same magnitude and the same pitch, where Infinity is the
\* same pitch as Infinity, so it is true of a screw and itself.
C20_Equality ==
  /\ call.op = "Axis.equalTo" =>
       /\ call.args[1] = call.args[2] => call.result.there
       /\ call.result.there <=> call.result.back
       /\ SameLine(call.args[1], call.args[2]) => call.result.there
       /\ call.args[1].direction # call.args[2].direction => ~call.result.there
  /\ call.op = "Screw.valuesEqualTo" =>
       /\ call.args[1] = call.args[2] => call.result
       /\ call.result <=>
            /\ SameLine(call.args[1].axis, call.args[2].axis)
            /\ call.args[1].magnitude = call.args[2].magnitude
            /\ call.args[1].pitch = call.args[2].pitch

\* two axes of one line and of different points were found equal, both ways
C20_Witness ==
  /\ call.op = "Axis.equalTo"
  /\ call.args[1].point # call.args[2].point
  /\ SameLine(call.args[1], call.args[2])
  /\ call.result.there
  /\ call.result.back

\* C21: getDistanceTravelled(point, m) returns m for a pure translation and
\* otherwise norm([radius, pitch]) * m, where radius is the distance of the
\* point to the axis and m, when left out, is the magnitude of the screw.
C21_DistanceScalesWithArgument ==
  (call.op = "getDistanceTravelled" /\ ~call.threw) =>
    LET s == call.args[1]
        m == IF call.args[3] = Undefined THEN s.magnitude ELSE call.args[3]
        radius == distanceToPoint(s.axis, call.args[2])
    IN  call.result = IF s.pitch = Infinity THEN m
                      ELSE Mul(norm2(radius, s.pitch), m)

\* C22: no edit of a field of the transform, the twist or the screw makes
\* the change callback throw an Error of a constructor of the core (a
\* direction of zero norm, a negative magnitude) or of a magnitude out of
\* range.
C22_EditsNeverRaise ==
  call.op = "changeCallback" =>
    ~(call.threw /\ call.result \in {"construction", "query range"})

\* C23: in every state a move that is not done has a start time, and the
\* state the constructor leaves and every state a reset leaves have
\* moveDone true, moveRequested false and moveStartTime undefined.
C23_StatesOfTheController ==
  /\ ~moveDone => moveStartTime # Undefined
  /\ lastOp.op \in {"constructor", "reset"} =>
       /\ moveDone
       /\ ~moveRequested
       /\ moveStartTime = Undefined

\* a reset interrupted a move that was under way
C23_Witness ==
  /\ lastOp.op = "reset"
  /\ ~lastOp.done
  /\ moveDone
  /\ moveStartTime = Undefined

\* C24: animate(time) that finds no request and moveDone true does nothing,
\* whatever the time: screw, prevScrew, moveRequested, moveDone,
\* moveStartTime, screwSpeed, the pose of the frame, both viz handles and the
\* scene stay as they are and no collaborator is called; the frame of a
\* completed move stays at the full transform of the screw.
C24_IdleAnimateIsNoOp ==
  [][\A tick \in Ticks :
       (~moveRequested /\ moveDone /\ AnimateAt(tick)) =>
         /\ UNCHANGED << screw, prevScrew, moveRequested, moveDone,
                         moveStartTime, screwSpeed, refAxes, axisViz, helixViz >>
         /\ UNCHANGED << sceneVars, controllersEnabled >>
         /\ signals' = {}
         /\ refAxes' = PoseAt(screw, screw.magnitude)]_vars

\* a later animate call has found a completed move, with its viz, and has
\* left the frame at the full transform of the screw
C24_Witness ==
  /\ lastOp.op = "animate"
  /\ ~lastOp.requested
  /\ lastOp.done
  /\ moveStartTime # Undefined
  /\ Num(clock) > moveStartTime + Num(1)
  /\ screw.magnitude > Zero
  /\ axisViz # NoViz
  /\ signals = {}
  /\ refAxes = PoseAt(screw, screw.magnitude)
  /\ refAxes # DefaultPose

\* a step that is a call of move(), from the test or from the button
MoveCalled == lastOp'.op = "move" /\ (Move \/ GuiMove)

\* C25: move() sets moveRequested and changes nothing else of the controller
\* or of the scene; a second move() before the next animate leaves the state
\* of the controller as the first one left it.
C25_MoveOnlyRequests ==
  [][MoveCalled =>
       /\ moveRequested'
       /\ UNCHANGED << screw, prevScrew, moveDone, moveStartTime, screwSpeed,
                       refAxes, axisViz, helixViz, sceneVars >>
       /\ lastOp.op = "move" => UNCHANGED << appVars, sceneVars >>]_vars

\* move() was called while the request of an earlier move() was pending, in
\* a state where every field has left its initial value
C25_Witness ==
  /\ lastOp.op = "move"
  /\ lastOp.requested
  /\ moveRequested
  /\ moveStartTime # Undefined
  /\ axisViz # NoViz

\* C26: whenever the axis viz is present, it is the mesh that was generated
\* for a screw equal by value to prevScrew, also after a move of a screw of
\* magnitude zero that follows a move of a screw of non-zero magnitude.
C26_VizIsOfPreviousScrew ==
  axisViz # NoViz =>
    \E m \in meshes :
      /\ m.id = axisViz
      /\ m.kind = "axis"
      /\ valuesEqual[<< m.screw, prevScrew >>]

\* C27: a helix viz exists only if an axis viz exists; a helix handle is set
\* only by the animate call that takes a request and sets a new axis handle
\* in the same call, and whenever one of the two handles is given up the
\* other one is given up with it.
C27_HelixOnlyWithAxis ==
  /\ [](helixViz # NoViz => axisViz # NoViz)
  /\ [][/\ helixViz' \notin {helixViz, NoViz} =>
             /\ lastOp'.op = "animate"
             /\ lastOp'.requested
             /\ axisViz' \notin {axisViz, NoViz}
        /\ (helixViz # NoViz /\ helixViz' # helixViz) => axisViz' # axisViz
        /\ (axisViz # NoViz /\ axisViz' # axisViz) =>
             (helixViz = NoViz \/ helixViz' # helixViz)]_vars

\* the animate call that took the request has made an axis and a helix
\* together, after an earlier viz had been given up
C27_Witness ==
  /\ lastOp.op = "animate"
  /\ lastOp.requested
  /\ allocated >= 3
  /\ helixViz = allocated
  /\ axisViz = allocated - 1

\* the state reset() leaves, with a request made after it
ResetThenMove ==
  /\ lastOp.op = "move"
  /\ moveRequested
  /\ moveDone
  /\ moveStartTime = Undefined
  /\ screw = defaultScrew
  /\ prevScrew = defaultScrew
  /\ axisViz = NoViz
  /\ helixViz = NoViz
  /\ refAxes = DefaultPose

\* C28: the animate call that follows a reset() which found a request pending
\* starts no move: moveDone stays true, the frame stays at the default pose
\* and no viz is made. The animate call that follows reset() and then move()
\* starts a move of the default screw.
C28_ResetCancelsRequest ==
  [][\A tick \in Ticks :
       /\ (lastOp.op = "reset" /\ lastOp.requested /\ AnimateAt(tick)) =>
            /\ moveDone'
            /\ ~moveRequested'
            /\ moveStartTime' = Undefined
            /\ refAxes' = DefaultPose
            /\ axisViz' = NoViz
            /\ helixViz' = NoViz
            /\ signals' = {}
            /\ UNCHANGED sceneVars
       /\ (ResetThenMove /\ AnimateAt(tick)) =>
            /\ ~moveDone'
            /\ ~moveRequested'
            /\ moveStartTime' = TimeOf(tick)
            /\ screw' = defaultScrew
            /\ prevScrew' = defaultScrew
            /\ refAxes' = DefaultPose]_vars

\* a viz made earlier is gone, which only reset() does, and after it a
\* request was made and taken: a move of the default screw is under way
C28_Witness ==
  /\ lastOp.op = "animate"
  /\ lastOp.requested
  /\ lastOp.done
  /\ ~moveDone
  /\ screw = defaultScrew
  /\ allocated > 0
  /\ axisViz = NoViz
  /\ moveStartTime = TimeOf(clock)

\* the magnitude at which the latest frame of the move under way put the
\* displayed frame: zero for the frame that took the request
EvaluatedBefore ==
  IF TookRequest THEN Zero ELSE advancedMagnitude(FrameTime(clock))

\* C29: in a timed run, from the frame that takes the request to the frame
\* that ends the move, the magnitude at which the pose is evaluated never
\* decreases from one frame to the next, is less than the magnitude of the
\* screw in every frame that leaves the move under way, and is the magnitude
\* of the screw in the frame that ends it; moveDone goes from false to true
\* once for each request taken, and enableAllControllers is called by the
\* frame that ends the move and by no other.
C29_MagnitudeAdvances ==
  /\ [][/\ \A frame \in Frames :
             (~moveRequested /\ ~moveDone /\ FrameAt(frame)) =>
               LET magnitude == advancedMagnitude(FrameTime(frame))
                   evaluated == IF moveDone' THEN screw.magnitude ELSE magnitude
               IN  /\ lastOp.op = "animate"
                   /\ EvaluatedBefore < screw.magnitude \/ TookRequest
                   /\ EvaluatedBefore <= evaluated
                   /\ ~moveDone' => evaluated < screw.magnitude
                   /\ moveDone' => magnitude >= screw.magnitude
                   /\ refAxes' = PoseAt(screw, evaluated)
        /\ (~moveDone /\ moveDone') =>
             /\ lastOp'.op = "animate"
             /\ ~lastOp'.requested
             /\ refAxes' = PoseAt(screw, screw.magnitude)
        /\ (moveDone /\ ~moveDone') => (moveRequested /\ lastOp'.op = "animate")
        /\ ("enableAllControllers" \in signals') <=> (~moveDone /\ moveDone')]_vars
  /\ ~moveDone ~> moveDone

\* the frame that ends the move of the coil, after a frame that had put the
\* displayed frame part of the way
C29_Witness ==
  /\ Advanced
  /\ moveDone
  /\ screw = coilScrew
  /\ "enableAllControllers" \in signals
  /\ refAxes = PoseAt(screw, screw.magnitude)
  /\ FrameTime(clock) - moveStartTime > Num(minTime)

\* C30: updateScrew(s) assigns the screw, its speed and the pose of the
\* frame, and leaves moveRequested, moveDone, prevScrew, moveStartTime, both
\* viz fields and the scene as they are; the animate call that follows an
\* updateScrew made while a move is under way puts the frame along the new
\* screw, at its speed times the time since the old moveStartTime, and makes
\* no viz.
C30_UpdateScrewFrame ==
  [][/\ \A s \in Screws :
          (lastOp'.op = "updateScrew" /\ UpdateScrew(s)) =>
            /\ screw' = s
            /\ screwSpeed' = getScrewSpeed(s)
            /\ refAxes' = PoseAt(s, s.magnitude)
            /\ UNCHANGED << moveRequested, moveDone, prevScrew, moveStartTime,
                            axisViz, helixViz, sceneVars >>
     /\ \A tick \in Ticks :
          (lastOp.op = "updateScrew" /\ ~moveRequested /\ ~moveDone
             /\ AnimateAt(tick)) =>
            LET magnitude == Mul(getScrewSpeed(screw),
                                 TimeOf(tick) - moveStartTime)
                evaluated == IF magnitude >= screw.magnitude
                             THEN screw.magnitude ELSE magnitude
            IN  /\ refAxes' = PoseAt(screw, evaluated)
                /\ moveDone' <=> magnitude >= screw.magnitude
                /\ signals' \subseteq {"enableAllControllers"}
                /\ UNCHANGED << screw, prevScrew, moveStartTime, axisViz,
                                helixViz, sceneVars >>]_vars

\* the screw was replaced while the move of another screw was under way: the
\* frame is part of the way along the new screw, counted from the start of
\* the move, and the axis viz is still the one made for the other screw
C30_Witness ==
  /\ Advanced
  /\ ~moveDone
  /\ screw # prevScrew
  /\ moveStartTime < TimeOf(clock)
  /\ refAxes = PoseAt(screw, Mul(getScrewSpeed(screw),
                                 TimeOf(clock) - moveStartTime))
  /\ refAxes # DefaultPose
  /\ \E m \in meshes : m.id = axisViz /\ m.screw = prevScrew

====
